---- MODULE Spec2Model ----
(* A model of streamlit_app.py: the price cell accessor (get_current_prices,   *)
(* update_prices) with the edit form's text conversion and coercion, the       *)
(* export pipeline export_sheet_to_csv, and the session run main().            *)
EXTENDS Integers, Sequences, FiniteSets, TLC

(***************************************************************************)
(* Bounds of the model.                                                    *)
(***************************************************************************)
\* longest text a user types into one field of the form
MaxLen == 3
\* largest number of rows / columns of a modelled Export sheet
MaxRows == 11
MaxCols == 4
\* number of script runs of one session
MaxRuns == 3

(***************************************************************************)
(* Program constants.                                                      *)
(***************************************************************************)
\* min(10, sheet.max_row): the rows the staleness probe inspects
ProbeRows == 10
\* 'A1', 'B1', 'C1': the columns of row 1 the probe exempts
HeaderCols == 3

Cells == <<"D4", "D5", "D6", "D7">>
CellSet == {Cells[i] : i \in 1..Len(Cells)}

(***************************************************************************)
(* Text: a Python str is a sequence of one-character strings.              *)
(***************************************************************************)
Digits == <<"0", "1", "2", "3", "4", "5", "6", "7", "8", "9">>
DigitSet == {Digits[i] : i \in 1..10}
IsDigitCh(c) == c \in DigitSet
DigitVal(c) == (CHOOSE i \in 1..10 : Digits[i] = c) - 1

\* str.isdigit(): non-empty and every character a digit
isdigit(s) == Len(s) > 0 /\ \A i \in 1..Len(s) : IsDigitCh(s[i])

\* str.replace(ch, ''): every occurrence of ch removed
RECURSIVE replace(_, _)
replace(s, ch) ==
    IF s = <<>> THEN <<>>
    ELSE IF Head(s) = ch THEN replace(Tail(s), ch)
         ELSE <<Head(s)>> \o replace(Tail(s), ch)

RECURSIVE IndexOf(_, _)
\* position of the first ch in s, 0 when there is none
IndexOf(s, ch) ==
    IF s = <<>> THEN 0
    ELSE IF Head(s) = ch THEN 1
         ELSE LET r == IndexOf(Tail(s), ch) IN IF r = 0 THEN 0 ELSE r + 1

Count(s, ch) == Cardinality({i \in 1..Len(s) : s[i] = ch})

RECURSIVE DigitsToInt(_)
DigitsToInt(s) ==
    IF s = <<>> THEN 0
    ELSE 10 * DigitsToInt(SubSeq(s, 1, Len(s) - 1)) + DigitVal(s[Len(s)])

RECURSIVE IntToDigits(_)
\* decimal digits of n >= 0
IntToDigits(n) ==
    IF n < 10 THEN <<Digits[n + 1]>>
    ELSE IntToDigits(n \div 10) \o <<Digits[(n % 10) + 1]>>

RECURSIVE Zeros(_)
Zeros(k) == IF k <= 0 THEN <<>> ELSE <<"0">> \o Zeros(k - 1)

Abs(n) == IF n < 0 THEN -n ELSE n

(***************************************************************************)
(* Cell values: None, int, float (m * 10^e, m not a multiple of 10), str.  *)
(***************************************************************************)
None == [t |-> "none", m |-> 0, e |-> 0, s |-> <<>>]
IntV(n) == [t |-> "int", m |-> n, e |-> 0, s |-> <<>>]
StrV(s) == [t |-> "str", m |-> 0, e |-> 0, s |-> s]

RECURSIVE Norm(_, _)
Norm(m, e) ==
    IF m = 0 THEN <<0, 0>>
    ELSE IF m % 10 = 0 THEN Norm(m \div 10, e + 1)
         ELSE <<m, e>>

FloatV(m, e) == [t |-> "float", m |-> Norm(m, e)[1], e |-> Norm(m, e)[2], s |-> <<>>]

IsNum(v) == v.t \in {"int", "float"}
\* numeric equality of an int or float with another (10 == 10.0)
NumEq(a, b) == IsNum(a) /\ IsNum(b) /\ Norm(a.m, a.e) = Norm(b.m, b.e)

(***************************************************************************)
(* float(s) on the text the form can hold: [sign] digits [. digits]        *)
(* [e [sign] digits], at least one mantissa digit; anything else raises    *)
(* ValueError (ok = FALSE).                                                *)
(***************************************************************************)
AllDigits(s) == \A i \in 1..Len(s) : IsDigitCh(s[i])

PyFloat(s) ==
    LET signed == Len(s) > 0 /\ s[1] \in {"-", "+"}
        neg    == signed /\ s[1] = "-"
        body   == IF signed THEN Tail(s) ELSE s
        ei     == IndexOf(body, "e")
        mant   == IF ei = 0 THEN body ELSE SubSeq(body, 1, ei - 1)
        expo   == IF ei = 0 THEN <<>> ELSE SubSeq(body, ei + 1, Len(body))
        esign  == Len(expo) > 0 /\ expo[1] \in {"-", "+"}
        eneg   == esign /\ expo[1] = "-"
        edigs  == IF esign THEN Tail(expo) ELSE expo
        pi     == IndexOf(mant, ".")
        ip     == IF pi = 0 THEN mant ELSE SubSeq(mant, 1, pi - 1)
        fp     == IF pi = 0 THEN <<>> ELSE SubSeq(mant, pi + 1, Len(mant))
        ok     == /\ AllDigits(ip) /\ AllDigits(fp)
                  /\ Len(ip) + Len(fp) > 0
                  /\ (ei = 0 \/ isdigit(edigs))
        ev     == IF ei = 0 THEN 0
                  ELSE IF eneg THEN -DigitsToInt(edigs) ELSE DigitsToInt(edigs)
        m      == DigitsToInt(ip \o fp)
    IN  IF ok THEN [ok |-> TRUE, v |-> FloatV(IF neg THEN -m ELSE m, ev - Len(fp))]
        ELSE [ok |-> FALSE, v |-> None]

(***************************************************************************)
(* str(v): repr of an int, the shortest repr of a float (positional when   *)
(* the decimal point falls in -4 < decpt <= 16, exponent notation          *)
(* otherwise), the text of a str.                                          *)
(***************************************************************************)
FloatRepr(m, e) ==
    LET digs  == IntToDigits(Abs(m))
        n     == Len(digs)
        decpt == n + e
        sign  == IF m < 0 THEN <<"-">> ELSE <<>>
        x     == decpt - 1
        xd    == IntToDigits(Abs(x))
    IN  IF m = 0 THEN <<"0", ".", "0">>
        ELSE IF -4 < decpt /\ decpt <= 16
        THEN sign \o
             (IF decpt <= 0 THEN <<"0", ".">> \o Zeros(-decpt) \o digs
              ELSE IF decpt >= n THEN digs \o Zeros(decpt - n) \o <<".", "0">>
              ELSE SubSeq(digs, 1, decpt) \o <<".">> \o SubSeq(digs, decpt + 1, n))
        ELSE sign \o <<digs[1]>>
             \o (IF n > 1 THEN <<".">> \o SubSeq(digs, 2, n) ELSE <<>>)
             \o <<"e">> \o (IF x < 0 THEN <<"-">> ELSE <<"+">>)
             \o (IF Len(xd) < 2 THEN <<"0">> ELSE <<>>) \o xd

PyStr(v) ==
    CASE v.t = "str"   -> v.s
      [] v.t = "int"   -> (IF v.m < 0 THEN <<"-">> ELSE <<>>) \o IntToDigits(Abs(v.m))
      [] v.t = "float" -> FloatRepr(v.m, v.e)
      [] v.t = "none"  -> <<"N", "o", "n", "e">>

\* value=str(current_prices[c]) if current_prices[c] is not None else ""
FormText(v) == IF v # None THEN PyStr(v) ELSE <<>>

\* a guard that leaves the decision to float() alone
LooksNumericNoGuard(value) == value # <<>>
\* the guard of the conversion: value and value.replace('.','').replace('-','').isdigit()
LooksNumeric(value) == value # <<>> /\ isdigit(replace(replace(value, "."), "-"))

\* float(value) if <guard> else value, with except: keep the text
Coerce(value) ==
    IF LooksNumeric(value)
    THEN LET r == PyFloat(value) IN IF r.ok THEN r.v ELSE StrV(value)
    ELSE StrV(value)

(***************************************************************************)
(* The workbook: its sheet names, cells D4..D7 of each sheet, and the      *)
(* calculation mode.                                                       *)
(***************************************************************************)
get_current_prices(workbook) ==
    IF "Prices" \notin workbook.sheets
    THEN [present |-> FALSE, map |-> [c \in CellSet |-> None]]
    ELSE [present |-> TRUE, map |-> [c \in CellSet |-> workbook.cells["Prices"][c]]]

\* an update that sets the calculation mode before it looks for the sheet
update_prices_eager(workbook, new_prices) ==
    IF "Prices" \notin workbook.sheets
    THEN [ok |-> FALSE, wb |-> [workbook EXCEPT !.calcMode = "auto"]]
    ELSE [ok |-> TRUE,
          wb |-> [workbook EXCEPT !.cells["Prices"] = new_prices, !.calcMode = "auto"]]

update_prices(workbook, new_prices) ==
    IF "Prices" \notin workbook.sheets
    THEN [ok |-> FALSE, wb |-> workbook]
    ELSE [ok |-> TRUE,
          wb |-> [workbook EXCEPT !.cells["Prices"] = new_prices, !.calcMode = "auto"]]

(***************************************************************************)
(* State.                                                                  *)
(***************************************************************************)
VARIABLES
    \* the price editor: main()'s locals around the form
    workbook,        \* the in-memory workbook
    current_prices,  \* get_current_prices(workbook) as read for the form
    form,            \* new_d4..new_d7: the text of the four inputs
    typed,           \* whether the user changed a field (history)
    before,          \* the workbook as passed to update_prices (history)
    updated,         \* what update_prices returned: "none", "true", "false"
    reread,          \* get_current_prices(workbook) after the update
    pc,              \* position in the editor
    \* export_sheet_to_csv(workbook, sheet_name)
    sheetIn,         \* sheet_name in workbook.sheetnames
    grid,            \* the cells of the target sheet in the workbook passed in
    engine,          \* whether xlwings can be imported: "absent", "present"
    tmp,             \* tmp_file on disk: exists, state, cells, hasSheet
    calc_wb,         \* the data_only reload: loaded, hasSheet, vals
    has_none_values, \* the probe's flag
    df,              \* the DataFrame read by pd.read_excel
    result,          \* what the call returned: kind, csv
    ran,             \* the steps entered so far (history)
    failed,          \* the steps that raised (history)
    readFrom,        \* the state of the file handed to the Tier B / C reader
    epc,             \* position in export_sheet_to_csv
    \* a session: runs of main() over the files on disk
    bundled,         \* your_workbook.xlsx: exists, file
    uploaded_file,   \* the uploader's file, kept across reruns: given, file
    temps,           \* the temporary files on disk: id, run, kind, file
    temp_file_path,  \* the id of the upload's temp copy, 0 for None
    use_bundled,     \* os.path.exists(excel_file_path)
    run,             \* the number of the current run
    lastOk,          \* the last update reported as successful (history)
    exportInput      \* the workbook handed to export_sheet_to_csv (history)

pvars_but_pc == <<workbook, current_prices, form, typed, before, updated, reread>>
pvars == <<workbook, current_prices, form, typed, before, updated, reread, pc>>
evars == <<sheetIn, grid, engine, tmp, calc_wb, has_none_values, df, result,
           ran, failed, readFrom, epc>>
mvars == <<bundled, uploaded_file, temps, temp_file_path, use_bundled, run,
           lastOk, exportInput>>
vars == <<pvars, evars, mvars>>

(***************************************************************************)
(* The values of the variables of a part of the program that is not        *)
(* running.                                                                *)
(***************************************************************************)
Unread == [present |-> FALSE, map |-> [c \in CellSet |-> None]]
NoForm == [c \in CellSet |-> <<>>]
NoTmp == [exists |-> FALSE, state |-> "none", cells |-> <<>>, hasSheet |-> FALSE]
NoWb == [loaded |-> FALSE, hasSheet |-> FALSE, vals |-> <<>>]
Pending == [kind |-> "pending", csv |-> <<>>]

\* workbook = None
NoBook == [sheets |-> {}, cells |-> <<>>, calcMode |-> "auto"]
NoFile == [valid |-> FALSE, book |-> NoBook]
NoUpdate == [set |-> FALSE, run |-> 0, prices |-> [c \in CellSet |-> None]]

MIdle ==
    /\ bundled = [exists |-> FALSE, file |-> NoFile]
    /\ uploaded_file = [given |-> FALSE, file |-> NoFile]
    /\ temps = {}
    /\ temp_file_path = 0
    /\ use_bundled = FALSE
    /\ run = 0
    /\ lastOk = NoUpdate
    /\ exportInput = NoBook

PIdle ==
    /\ workbook = NoBook
    /\ current_prices = Unread
    /\ form = NoForm
    /\ typed = FALSE
    /\ before = workbook
    /\ updated = "none"
    /\ reread = Unread
    /\ pc = "idle"

EIdle ==
    /\ sheetIn = FALSE
    /\ grid = <<>>
    /\ engine = "absent"
    /\ tmp = NoTmp
    /\ calc_wb = NoWb
    /\ has_none_values = FALSE
    /\ df = <<>>
    /\ result = Pending
    /\ ran = {}
    /\ failed = {}
    /\ readFrom = "none"
    /\ epc = "idle"

(***************************************************************************)
(* The target sheet of an export: a rectangle of cells. In the workbook a  *)
(* cell is "lit" (a literal), "formula" or "blank"; in a file a formula    *)
(* may carry a cached value ("cached") and a literal may hold a computed   *)
(* value ("calc"); read data_only a cell is "v", "c" (a computed value) or *)
(* "none".                                                                 *)
(***************************************************************************)
Min(a, b) == IF a < b THEN a ELSE b

LitGrid(n, k) == [r \in 1..n |-> [c \in 1..k |-> "lit"]]
\* a header of literals over rows of formulas
FormulaGrid(n, k) == [r \in 1..n |-> [c \in 1..k |-> IF r = 1 THEN "lit" ELSE "formula"]]

\* the sheets of the model: all literals, all literals but one formula or
\* blank cell, and a literal header over formulas
Grids ==
    UNION { {LitGrid(n, k), FormulaGrid(n, k)} \cup
            {[LitGrid(n, k) EXCEPT ![r][c] = kind] :
                 r \in 1..n, c \in 1..k, kind \in {"formula", "blank"}} :
            n \in 1..MaxRows, k \in 1..MaxCols }

\* what a full recalculation leaves in the file: every formula has a value
Recalc(k) == IF k = "formula" THEN "cached" ELSE k
\* a load that keeps the formula's text in place of its (absent) value
DataOnlyFormulaText(k) ==
    CASE k = "lit" -> "v"
      [] k = "cached" -> "c"
      [] k = "calc" -> "c"
      [] k = "formula" -> "v"
      [] k = "blank" -> "none"
\* openpyxl.load_workbook(data_only=True): values, the cached ones for formulas
DataOnly(k) ==
    CASE k = "lit" -> "v"
      [] k = "cached" -> "c"
      [] k = "calc" -> "c"
      [] k = "formula" -> "none"
      [] k = "blank" -> "none"
\* calc_wb.save: the values become literals of the file
AsLiteral(v) ==
    CASE v = "v" -> "lit"
      [] v = "c" -> "calc"
      [] v = "none" -> "blank"

RecalcGrid(g) == [r \in 1..Len(g) |-> [c \in 1..Len(g[r]) |-> Recalc(g[r][c])]]
DataOnlyGrid(g) == [r \in 1..Len(g) |-> [c \in 1..Len(g[r]) |-> DataOnly(g[r][c])]]
AsLiteralGrid(g) == [r \in 1..Len(g) |-> [c \in 1..Len(g[r]) |-> AsLiteral(g[r][c])]]

\* pd.read_excel: the first row names the columns (an empty name becomes
\* "Unnamed: n"), the other rows are data with NaN for an empty cell
ReadExcel(cells) ==
    [r \in 1..Len(cells) |->
        [c \in 1..Len(cells[r]) |->
            IF r = 1 /\ DataOnly(cells[r][c]) = "none" THEN "unnamed"
            ELSE DataOnly(cells[r][c])]]

(***************************************************************************)
(* The staleness probe, lines 86-95: rows 1..min(10, max_row), cell by     *)
(* cell, stopping at the first None outside A1, B1, C1.                    *)
(***************************************************************************)
RECURSIVE ScanCells(_, _, _)
\* the cells c.. of row r: TRUE when one is None and not a header cell
ScanCells(row, r, c) ==
    IF c > Len(row) THEN FALSE
    ELSE IF row[c] = "none" /\ r = 1 /\ c <= HeaderCols THEN ScanCells(row, r, c + 1)
    ELSE IF row[c] = "none" THEN TRUE
    ELSE ScanCells(row, r, c + 1)

RECURSIVE ScanRows(_, _, _)
ScanRows(vals, r, last) ==
    IF r > last THEN FALSE
    ELSE IF ScanCells(vals[r], r, 1) THEN TRUE
    ELSE ScanRows(vals, r + 1, last)

\* a probe without the min(10, max_row) limit
ProbeAllRows(vals) == ScanRows(vals, 1, Len(vals))
Probe(vals) == ScanRows(vals, 1, Min(ProbeRows, Len(vals)))

(***************************************************************************)
(* export_sheet_to_csv, step by step. Every call inside the try block may  *)
(* raise; `failed` records where.                                          *)
(***************************************************************************)
ReturnNone == [kind |-> "None", csv |-> <<>>]
Raised == [kind |-> "raised", csv |-> <<>>]
Bytes(d) == [kind |-> "bytes", csv |-> d]

\* a handler that misses the exceptions of to_csv
OnRaiseNarrow(step) ==
    IF step = "create" THEN "propagate"
    ELSE IF step = "csv" THEN "uncaught"
    ELSE "except"
\* where control goes when `step` raises: the with statement is outside the
\* try, everything else is caught by except Exception
OnRaise(step) == IF step = "create" THEN "propagate" ELSE "except"

\* a finally clause that deletes nothing
CleanupNever(t, unlinked) == t
\* the finally clause: os.path.exists, then os.unlink, its failure swallowed
Cleanup(t, unlinked) ==
    IF t.exists /\ unlinked THEN [t EXCEPT !.exists = FALSE] ELSE t

EInit ==
    /\ \/ sheetIn = TRUE /\ grid \in Grids
       \/ sheetIn = FALSE /\ grid = LitGrid(1, 1)
    /\ engine \in {"absent", "present"}
    /\ tmp = NoTmp
    /\ calc_wb = NoWb
    /\ has_none_values = FALSE
    /\ df = <<>>
    /\ result = Pending
    /\ ran = {}
    /\ failed = {}
    /\ readFrom = "none"
    /\ epc = "start"
    /\ PIdle
    /\ MIdle

\* a step raising: control moves as OnRaise says; an exception that no except
\* clause catches still runs the finally clause before it leaves the call
Raise(step) ==
    /\ failed' = failed \cup {step}
    /\ ran' = ran \cup {step}
    /\ epc' = IF OnRaise(step) = "except" THEN "except"
              ELSE IF OnRaise(step) = "uncaught" THEN "finally"
              ELSE "done"
    /\ result' = IF OnRaise(step) = "except" THEN result ELSE Raised

\* if sheet_name not in workbook.sheetnames: return None
XCheckSheet ==
    /\ epc = "start"
    /\ IF sheetIn THEN epc' = "create" /\ result' = result
       ELSE epc' = "done" /\ result' = ReturnNone
    /\ UNCHANGED <<sheetIn, grid, engine, tmp, calc_wb, has_none_values, df,
                   ran, failed, readFrom>>
    /\ UNCHANGED <<pvars, mvars>>

\* with tempfile.NamedTemporaryFile(suffix='.xlsx', delete=False) as tmp_file
XCreate ==
    /\ epc = "create"
    /\ \/ /\ tmp' = [exists |-> TRUE, state |-> "empty", cells |-> <<>>, hasSheet |-> FALSE]
          /\ ran' = ran \cup {"create"}
          /\ epc' = "save"
          /\ UNCHANGED <<failed, result>>
       \/ Raise("create") /\ UNCHANGED tmp
    /\ UNCHANGED <<sheetIn, grid, engine, calc_wb, has_none_values, df, readFrom>>
    /\ UNCHANGED <<pvars, mvars>>

\* workbook.save(tmp_file.name)
XSave ==
    /\ epc = "save"
    /\ \/ /\ tmp' = [exists |-> TRUE, state |-> "saved", cells |-> grid, hasSheet |-> TRUE]
          /\ ran' = ran \cup {"save"}
          /\ epc' = "tierA"
          /\ UNCHANGED <<failed, result>>
       \/ Raise("save") /\ UNCHANGED tmp
    /\ UNCHANGED <<sheetIn, grid, engine, calc_wb, has_none_values, df, readFrom>>
    /\ UNCHANGED <<pvars, mvars>>

\* import xlwings ... app.quit(); except ImportError: pass
XTierA ==
    /\ epc = "tierA"
    /\ \/ \* ImportError: no engine, go on
          /\ engine = "absent"
          /\ ran' = ran \cup {"tierA"}
          /\ epc' = "reload"
          /\ UNCHANGED <<tmp, failed, result>>
       \/ \* the engine recalculates and saves; what it writes is the engine's
          \* (and the workbook's macros') doing, the target sheet may be gone
          /\ engine = "present"
          /\ \E keeps \in BOOLEAN :
               tmp' = [tmp EXCEPT !.state = "recalc",
                                  !.cells = RecalcGrid(tmp.cells),
                                  !.hasSheet = keeps]
          /\ ran' = ran \cup {"tierA"}
          /\ epc' = "reload"
          /\ UNCHANGED <<failed, result>>
       \/ \* the engine raises before wb.save()
          /\ engine = "present"
          /\ Raise("tierA")
          /\ UNCHANGED tmp
       \/ \* the engine raises after wb.save() (wb.close(), app.quit())
          /\ engine = "present"
          /\ Raise("tierA")
          /\ tmp' = [tmp EXCEPT !.state = "recalc", !.cells = RecalcGrid(tmp.cells)]
    /\ UNCHANGED <<sheetIn, grid, engine, calc_wb, has_none_values, df, readFrom>>
    /\ UNCHANGED <<pvars, mvars>>

\* calc_wb = openpyxl.load_workbook(tmp_file.name, data_only=True)
XReload ==
    /\ epc = "reload"
    /\ \/ /\ calc_wb' = [loaded |-> TRUE, hasSheet |-> tmp.hasSheet,
                         vals |-> DataOnlyGrid(tmp.cells)]
          /\ ran' = ran \cup {"reload"}
          /\ epc' = "probe"
          /\ UNCHANGED <<failed, result>>
       \/ Raise("reload") /\ UNCHANGED calc_wb
    /\ UNCHANGED <<sheetIn, grid, engine, tmp, has_none_values, df, readFrom>>
    /\ UNCHANGED <<pvars, mvars>>

\* if sheet_name in calc_wb.sheetnames: the probe and the choice of the tier;
\* else: calc_wb.close(); return None
XProbe ==
    /\ epc = "probe"
    /\ \/ /\ calc_wb.hasSheet
          /\ has_none_values' = Probe(calc_wb.vals)
          /\ ran' = ran \cup {"probe"}
          /\ epc' = IF Probe(calc_wb.vals) THEN "tierB" ELSE "tierC"
          /\ UNCHANGED <<failed, result>>
       \/ /\ calc_wb.hasSheet
          /\ Raise("probe")
          /\ UNCHANGED has_none_values
       \/ /\ ~calc_wb.hasSheet
          /\ ran' = ran \cup {"sheetGone"}
          /\ result' = ReturnNone
          /\ epc' = "finally"
          /\ UNCHANGED <<failed, has_none_values>>
    /\ UNCHANGED <<sheetIn, grid, engine, tmp, calc_wb, df, readFrom>>
    /\ UNCHANGED <<pvars, mvars>>

\* calc_wb.close(); df = pd.read_excel(tmp_file.name, ...)
XTierB ==
    /\ epc = "tierB"
    /\ \/ /\ df' = ReadExcel(tmp.cells)
          /\ readFrom' = tmp.state
          /\ ran' = ran \cup {"tierB"}
          /\ epc' = "csv"
          /\ UNCHANGED <<failed, result>>
       \/ Raise("tierB") /\ UNCHANGED <<df, readFrom>>
    /\ UNCHANGED <<sheetIn, grid, engine, tmp, calc_wb, has_none_values>>
    /\ UNCHANGED <<pvars, mvars>>

\* calc_wb.save(tmp_file.name); calc_wb.close(); df = pd.read_excel(...)
XTierC ==
    /\ epc = "tierC"
    /\ LET saved == [tmp EXCEPT !.state = "values",
                                !.cells = AsLiteralGrid(calc_wb.vals)] IN
       \/ /\ tmp' = saved
          /\ df' = ReadExcel(saved.cells)
          /\ readFrom' = "values"
          /\ ran' = ran \cup {"tierC"}
          /\ epc' = "csv"
          /\ UNCHANGED <<failed, result>>
       \/ \* calc_wb.save raises: the file is left unreadable
          /\ Raise("tierC")
          /\ tmp' = [tmp EXCEPT !.state = "empty", !.cells = <<>>, !.hasSheet = FALSE]
          /\ UNCHANGED <<df, readFrom>>
       \/ \* pd.read_excel raises after the save
          /\ Raise("tierC")
          /\ tmp' = saved
          /\ UNCHANGED <<df, readFrom>>
    /\ UNCHANGED <<sheetIn, grid, engine, calc_wb, has_none_values>>
    /\ UNCHANGED <<pvars, mvars>>

\* csv_string = df.to_csv(index=False); return csv_string.encode()
XCsv ==
    /\ epc = "csv"
    /\ \/ /\ result' = Bytes(df)
          /\ ran' = ran \cup {"csv"}
          /\ epc' = "finally"
          /\ UNCHANGED failed
       \/ Raise("csv")
    /\ UNCHANGED <<sheetIn, grid, engine, tmp, calc_wb, has_none_values, df, readFrom>>
    /\ UNCHANGED <<pvars, mvars>>

\* except Exception: st.error; try: pd.read_excel, to_csv; except: return None
XExcept ==
    /\ epc = "except"
    /\ ran' = ran \cup {"fallback"}
    /\ \/ /\ tmp.state # "empty"
          /\ tmp.hasSheet
          /\ result' = Bytes(ReadExcel(tmp.cells))
          /\ UNCHANGED failed
       \/ /\ result' = ReturnNone
          /\ failed' = failed \cup {"fallback"}
    /\ epc' = "finally"
    /\ UNCHANGED <<sheetIn, grid, engine, tmp, calc_wb, has_none_values, df, readFrom>>
    /\ UNCHANGED <<pvars, mvars>>

\* finally: if os.path.exists(tmp_file.name): try: os.unlink; except: pass
XFinally ==
    /\ epc = "finally"
    /\ \E unlinked \in BOOLEAN :
         /\ tmp' = Cleanup(tmp, unlinked)
         /\ failed' = IF tmp.exists /\ ~unlinked THEN failed \cup {"unlink"} ELSE failed
    /\ ran' = ran \cup {"finally"}
    /\ epc' = "done"
    /\ UNCHANGED <<sheetIn, grid, engine, calc_wb, has_none_values, df, result, readFrom>>
    /\ UNCHANGED <<pvars, mvars>>

ENext ==
    \/ XCheckSheet \/ XCreate \/ XSave \/ XTierA \/ XReload \/ XProbe
    \/ XTierB \/ XTierC \/ XCsv \/ XExcept \/ XFinally

(***************************************************************************)
(* Inputs of the price editor.                                             *)
(***************************************************************************)
Alphabet == {"0", "1", ".", "-", "e"}
Texts == UNION {[1..k -> Alphabet] : k \in 0..MaxLen}

\* the values a price cell holds when the workbook is opened
CellValues ==
    { None, IntV(10), IntV(-3), FloatV(5, -1), FloatV(-25, -1), FloatV(1, -4),
      FloatV(1, -5), FloatV(1, 16), StrV(<<"a", "b">>), StrV(<<"1", "5">>) }

BaseRow == [c \in CellSet |-> IntV(10)]
\* the D4..D7 of a sheet: the base row with at most one cell replaced
Rows == {BaseRow} \cup
        {[BaseRow EXCEPT ![c] = v] : c \in CellSet, v \in CellValues}

SheetSets == {{"Prices", "Export"}, {"prices", "Export"}, {"Export"}}
PriceLike == {"Prices", "prices"}

Books ==
    { [sheets |-> ss,
       cells |-> [n \in ss |-> IF n \in PriceLike THEN r ELSE BaseRow],
       calcMode |-> cm] :
      ss \in SheetSets, r \in Rows, cm \in {"auto", "manual"} }


\* the mappings a caller other than the form hands to update_prices
DirectPrices ==
    { [c \in CellSet |-> Coerce(s)] : s \in {<<"1", "5">>, <<"a">>} }

PInit ==
    /\ workbook \in Books
    /\ current_prices = Unread
    /\ form = NoForm
    /\ typed = FALSE
    /\ before = workbook
    /\ updated = "none"
    /\ reread = Unread
    /\ pc = "start"
    /\ EIdle
    /\ MIdle

\* current_prices = get_current_prices(workbook); None: st.error, st.stop()
ReadPrices ==
    /\ pc = "start"
    /\ current_prices' = get_current_prices(workbook)
    /\ pc' = IF get_current_prices(workbook).present THEN "form" ELSE "stopped"
    /\ UNCHANGED <<workbook, form, typed, before, updated, reread>>
    /\ UNCHANGED <<evars, mvars>>

\* the four st.text_input widgets, prefilled with the current values
ShowForm ==
    /\ pc = "form"
    /\ form' = [c \in CellSet |-> FormText(current_prices.map[c])]
    /\ pc' = "edit"
    /\ UNCHANGED <<workbook, current_prices, typed, before, updated, reread>>
    /\ UNCHANGED <<evars, mvars>>

\* the user replaces the text of one field
TypeText ==
    /\ pc = "edit"
    /\ ~typed
    /\ \E c \in CellSet, s \in Texts : form' = [form EXCEPT ![c] = s]
    /\ typed' = TRUE
    /\ UNCHANGED <<workbook, current_prices, before, updated, reread, pc>>
    /\ UNCHANGED <<evars, mvars>>

\* the new_prices of a submission: every field coerced
NewPrices(f) == [c \in CellSet |-> Coerce(f[c])]

\* submitted: coerce every field, update_prices(workbook, new_prices)
Submit ==
    /\ pc = "edit"
    /\ LET r == update_prices(workbook, NewPrices(form)) IN
         /\ workbook' = r.wb
         /\ updated' = IF r.ok THEN "true" ELSE "false"
    /\ before' = workbook
    /\ pc' = "submitted"
    /\ UNCHANGED <<current_prices, form, typed, reread>>
    /\ UNCHANGED <<evars, mvars>>

\* the values shown after the update: get_current_prices(workbook)
ReadAgain ==
    /\ pc = "submitted"
    /\ reread' = get_current_prices(workbook)
    /\ pc' = "reread"
    /\ UNCHANGED <<workbook, current_prices, form, typed, before, updated>>
    /\ UNCHANGED <<evars, mvars>>

\* update_prices called on a workbook as opened, whatever its sheets
CallUpdate ==
    /\ pc = "start"
    /\ \E np \in DirectPrices :
         LET r == update_prices(workbook, np) IN
           /\ workbook' = r.wb
           /\ updated' = IF r.ok THEN "true" ELSE "false"
    /\ before' = workbook
    /\ pc' = "called"
    /\ UNCHANGED <<current_prices, form, typed, reread>>
    /\ UNCHANGED <<evars, mvars>>

PNext == ReadPrices \/ ShowForm \/ TypeText \/ Submit \/ ReadAgain \/ CallUpdate

SpecPrices == PInit /\ [][PNext]_vars

SpecExport == EInit /\ [][ENext]_vars

(***************************************************************************)
(* Claims about the price editor (checked under SpecPrices).               *)
(***************************************************************************)
OnlyDigits(s) == SelectSeq(s, IsDigitCh)

\* the texts the coercion law calls numeric: digits, at most one '.', at most
\* one '-', and that one leading
NumericShape(s) ==
    /\ s # <<>>
    /\ \A i \in 1..Len(s) : IsDigitCh(s[i]) \/ s[i] \in {".", "-"}
    /\ Count(s, ".") <= 1
    /\ Count(s, "-") <= 1
    /\ (Count(s, "-") = 1 => s[1] = "-")

\* the number such a text denotes: its digits, scaled by the digits after '.'
DenotedNumber(s) ==
    LET d    == DigitsToInt(OnlyDigits(s))
        frac == IF IndexOf(s, ".") = 0 THEN 0 ELSE Len(s) - IndexOf(s, ".")
    IN  FloatV(IF s[1] = "-" THEN -d ELSE d, -frac)

StoredPrice(c) == workbook.cells["Prices"][c]

\* C1 as stated: after a submission, every field whose text has the numeric
\* shape is stored as the float it denotes, every other text is stored as
\* that text, for each of D4..D7.
C1_CoercionLawAsStated ==
    pc = "submitted" =>
        \A c \in CellSet :
            IF NumericShape(form[c])
            THEN StoredPrice(c).t = "float" /\ StoredPrice(c) = DenotedNumber(form[c])
            ELSE StoredPrice(c) = StrV(form[c])

\* C1 amended: the numeric texts are those of the numeric shape that hold at
\* least one digit; "." and "-" and "-." are stored as text.
C1_CoercionLaw ==
    pc = "submitted" =>
        \A c \in CellSet :
            IF NumericShape(form[c]) /\ OnlyDigits(form[c]) # <<>>
            THEN StoredPrice(c).t = "float" /\ StoredPrice(c) = DenotedNumber(form[c])
            ELSE StoredPrice(c) = StrV(form[c])

\* a submission that stored "-.1" typed into D5 as the float -0.1 beside a
\* field of text stored as text
C1_Witness ==
    /\ pc = "submitted"
    /\ typed
    /\ form["D5"] = <<"-", ".", "1">>
    /\ StoredPrice("D5") = FloatV(-1, -1)
    /\ \E c \in CellSet : StoredPrice(c).t = "str"

\* C2: on a workbook with no sheet named exactly 'Prices', get_current_prices
\* returns the absent sentinel and update_prices returns False and leaves
\* the whole workbook (every sheet's cells, the calculation mode) as it was.
C2_MissingSheet ==
    /\ (pc \in {"stopped", "form", "edit", "submitted", "reread"} =>
            (current_prices.present <=> "Prices" \in before.sheets))
    /\ (pc = "called" /\ "Prices" \notin before.sheets =>
            updated = "false" /\ workbook = before)

\* update_prices was called on a workbook in manual calculation mode that has
\* a sheet 'prices' but none named 'Prices'
C2_Witness ==
    /\ pc = "called"
    /\ before.sheets = {"prices", "Export"}
    /\ before.calcMode = "manual"
    /\ updated = "false"
    /\ ~get_current_prices(workbook).present

\* the normalisation a no-op edit may apply: a number stays a number of the
\* same value, a text stays that text or becomes the number it denotes, an
\* empty cell stays empty (None or the empty text)
SameUpToCoercion(a, b) ==
    \/ a = b
    \/ NumEq(a, b)
    \/ a.t = "str" /\ IsNum(b) /\ PyFloat(a.s).ok /\ NumEq(PyFloat(a.s).v, b)
    \/ a = None /\ b = StrV(<<>>)

\* C6: submitting the form unchanged and reading again yields the four
\* values read before, up to that normalisation.
C6_RoundTrip ==
    pc = "reread" /\ ~typed =>
        \A c \in CellSet : SameUpToCoercion(current_prices.map[c], reread.map[c])

(***************************************************************************)
(* Claims about export_sheet_to_csv (checked under SpecExport).            *)
(***************************************************************************)
TrySteps == {"save", "tierA", "reload", "probe", "tierB", "tierC", "csv"}
Created == "create" \in ran /\ "create" \notin failed

\* C3 as stated: once the call has returned, on every exit path, no temporary
\* file of the call is on disk.
C3_NoTempFileAsStated ==
    epc = "done" => ~tmp.exists

\* C3 amended: once the call has returned, the finally clause has run on every
\* path that created the file, and the file is on disk only if os.unlink
\* itself failed (which is swallowed); with the target sheet absent no file
\* was created at all.
C3_TempFileCleanup ==
    epc = "done" =>
        /\ (Created => "finally" \in ran)
        /\ (tmp.exists => "unlink" \in failed)
        /\ (~sheetIn => "create" \notin ran /\ ~tmp.exists)

\* the call returned None after the fallback failed too, and its file is gone
C3_Witness ==
    /\ epc = "done"
    /\ "fallback" \in failed
    /\ result = ReturnNone
    /\ "finally" \in ran
    /\ ~tmp.exists

\* C4: after the temporary file is created, a failure of any step of the try
\* block leads to the fallback, which returns the flattened temp file or,
\* failing too, None; the call never ends by raising.
C4_FailureContainment ==
    epc = "done" /\ Created =>
        /\ result.kind \in {"None", "bytes"}
        /\ (failed \cap TrySteps # {} => "fallback" \in ran)
        /\ ("fallback" \in failed => result = ReturnNone)
        /\ ("fallback" \in ran /\ "fallback" \notin failed =>
                result = Bytes(ReadExcel(tmp.cells)))

\* Tier C raised (calc_wb.save or pd.read_excel) and the fallback returned data
C4_Witness ==
    /\ epc = "done"
    /\ "tierC" \in failed
    /\ "fallback" \in ran
    /\ result.kind = "bytes"

HasFormula(g) == \E r \in 1..Len(g) : \E c \in 1..Len(g[r]) : g[r][c] = "formula"

\* C5: with the target sheet present, no engine, formulas without cached
\* values and no step failing, the call returns CSV bytes in which every
\* data cell of a formula is empty (a formula in the first row leaves an
\* unnamed column).
C5_DegradedExport ==
    epc = "done" /\ sheetIn /\ Created /\ engine = "absent"
        /\ failed \subseteq {"unlink"} /\ HasFormula(grid) =>
        /\ result.kind = "bytes"
        /\ Len(result.csv) = Len(grid)
        /\ \A r \in 1..Len(grid) : \A c \in 1..Len(grid[r]) :
               grid[r][c] = "formula" =>
                   result.csv[r][c] = IF r = 1 THEN "unnamed" ELSE "none"

\* a sheet of a header over two rows of formulas exported without an engine
C5_Witness ==
    /\ epc = "done"
    /\ grid = FormulaGrid(3, 2)
    /\ engine = "absent"
    /\ failed = {}
    /\ result.kind = "bytes"
    /\ result.csv[2][1] = "none"

\* C7: when the engine is absent or fails, and nothing else fails, the call
\* still runs the cached-value reload, the probe and one of Tier B / Tier C.
C7_SoftDependency ==
    epc = "done" /\ "tierA" \in ran /\ failed \subseteq {"tierA", "unlink"} =>
        /\ "reload" \in ran
        /\ "probe" \in ran \/ "sheetGone" \in ran
        /\ "probe" \in ran => ran \cap {"tierB", "tierC"} # {}

\* the declarative reading of the probe: an empty inspected cell in rows
\* 1..min(10, max_row) other than A1, B1, C1
Stale(vals) ==
    \E r \in 1..Min(ProbeRows, Len(vals)) : \E c \in 1..Len(vals[r]) :
        vals[r][c] = "none" /\ ~(r = 1 /\ c <= HeaderCols)

TookB == epc = "tierB" \/ "tierB" \in ran
TookC == epc = "tierC" \/ "tierC" \in ran

\* C8: once the probe has run, exactly one of Tier B and Tier C is taken,
\* Tier B exactly when an inspected cell of the first ten rows outside the
\* header cells is empty; Tier B reads the file as persisted (or recalculated),
\* never the one overwritten by the cached-value reload, Tier C reads the
\* overwritten one.
C8_TierSelection ==
    "probe" \in ran /\ "probe" \notin failed =>
        /\ TookB <=> Stale(calc_wb.vals)
        /\ TookC <=> ~Stale(calc_wb.vals)
        /\ has_none_values <=> TookB
        /\ ("tierB" \in ran /\ "tierB" \notin failed =>
                readFrom \in {"saved", "recalc"} /\ tmp.state # "values")
        /\ ("tierC" \in ran /\ "tierC" \notin failed => readFrom = "values")

\* a sheet whose only empty cell is in row 11 went through Tier C
C8_Witness ==
    /\ Len(grid) > ProbeRows
    /\ \E c \in 1..Len(grid[ProbeRows + 1]) : grid[ProbeRows + 1][c] = "blank"
    /\ "tierC" \in ran
    /\ "tierC" \notin failed
    /\ readFrom = "values"

(***************************************************************************)
(* A session: main() run again and again over the bundled file, the        *)
(* uploader's file and the temporary files. st.stop() and st.rerun() end   *)
(* the run where they are called.                                          *)
(***************************************************************************)
\* what openpyxl reads back for a saved cell: an empty text is no value
LoadCell(v) == IF v = StrV(<<>>) THEN None ELSE v

\* load_excel_file(path): the workbook, None when the file cannot be loaded
load_excel_file(file) ==
    IF ~file.valid THEN NoBook
    ELSE [file.book EXCEPT
            !.cells = [n \in file.book.sheets |->
                          [c \in CellSet |-> LoadCell(file.book.cells[n][c])]]]

\* workbook.save(path)
SaveFile(wb) == [valid |-> TRUE, book |-> wb]

MainRow == [c \in CellSet |->
              CASE c = "D4" -> IntV(10)
                [] c = "D5" -> FloatV(5, -1)
                [] c = "D6" -> StrV(<<"a", "b">>)
                [] c = "D7" -> None]

MainFiles ==
    {NoFile} \cup
    { SaveFile([sheets |-> ss, cells |-> [n \in ss |-> MainRow], calcMode |-> "auto"]) :
        ss \in {{"Prices", "Export"}, {"Prices"}, {"Export"}} }

\* what the user types over a prefilled field
MainTexts == {<<"1", "5">>, <<"a">>}

UploadId(r) == 2 * r
PreviewId(r) == 2 * r + 1
TempFile(i, r, k, f) == [id |-> i, run |-> r, kind |-> k, file |-> f]
TempAt(i) == CHOOSE f \in temps : f.id = i

\* os.unlink(path)
Unlink(i) == {f \in temps : f.id # i}

MInit ==
    /\ bundled \in {[exists |-> FALSE, file |-> NoFile]} \cup
                   {[exists |-> TRUE, file |-> f] : f \in MainFiles}
    /\ uploaded_file \in {[given |-> FALSE, file |-> NoFile]} \cup
                         {[given |-> TRUE, file |-> f] : f \in MainFiles}
    /\ temps = {}
    /\ temp_file_path = 0
    /\ use_bundled = FALSE
    /\ run = 1
    /\ lastOk = NoUpdate
    /\ exportInput = NoBook
    /\ workbook = NoBook
    /\ current_prices = Unread
    /\ form = NoForm
    /\ typed = FALSE
    /\ before = NoBook
    /\ updated = "none"
    /\ reread = Unread
    /\ pc = "m_start"
    /\ EIdle

\* lines 137-171: pick the file, copy an upload to a temp file, load it;
\* st.stop() when there is no workbook
MOpen ==
    /\ pc = "m_start"
    /\ use_bundled' = bundled.exists
    /\ IF uploaded_file.given
       THEN /\ temps' = temps \cup {TempFile(UploadId(run), run, "upload", uploaded_file.file)}
            /\ temp_file_path' = UploadId(run)
            /\ workbook' = load_excel_file(uploaded_file.file)
       ELSE /\ UNCHANGED temps
            /\ temp_file_path' = 0
            /\ workbook' = IF bundled.exists THEN load_excel_file(bundled.file) ELSE NoBook
    /\ pc' = IF workbook' = NoBook THEN "m_ended" ELSE "m_loaded"
    /\ current_prices' = Unread
    /\ form' = NoForm
    /\ updated' = "none"
    /\ exportInput' = NoBook
    /\ UNCHANGED <<typed, before, reread, bundled, uploaded_file, run, lastOk>>
    /\ UNCHANGED evars

\* lines 186-219: read the prices, st.stop() without a Prices sheet, else
\* show the form prefilled
MRead ==
    /\ pc = "m_loaded"
    /\ current_prices' = get_current_prices(workbook)
    /\ IF get_current_prices(workbook).present
       THEN /\ form' = [c \in CellSet |-> FormText(get_current_prices(workbook).map[c])]
            /\ pc' = "m_form"
       ELSE /\ UNCHANGED form
            /\ pc' = "m_ended"
    /\ UNCHANGED <<workbook, typed, before, updated, reread>>
    /\ UNCHANGED <<evars, mvars>>

\* the form is not submitted in this run
MNoSubmit ==
    /\ pc = "m_form"
    /\ pc' = "m_preview"
    /\ UNCHANGED <<workbook, current_prices, form, typed, before, updated, reread>>
    /\ UNCHANGED <<evars, mvars>>

\* the texts of a submission: the prefilled ones, at most one typed over
Submissions(f) == {f} \cup {[f EXCEPT ![c] = s] : c \in CellSet, s \in MainTexts}

\* lines 224-255: coerce, update_prices, save to temp_file_path or the bundled
\* path; saved: st.rerun(); save raised: st.error and go on
MSubmit ==
    /\ pc = "m_form"
    /\ \E f \in Submissions(form), saved \in BOOLEAN :
         LET r == update_prices(workbook, NewPrices(f)) IN
           /\ form' = f
           /\ workbook' = r.wb
           /\ updated' = IF r.ok THEN "true" ELSE "false"
           /\ IF r.ok /\ saved
              THEN /\ IF temp_file_path # 0
                      THEN /\ temps' = Unlink(temp_file_path) \cup
                                       {[TempAt(temp_file_path) EXCEPT !.file = SaveFile(r.wb)]}
                           /\ UNCHANGED bundled
                      ELSE /\ bundled' = [exists |-> TRUE, file |-> SaveFile(r.wb)]
                           /\ UNCHANGED temps
                   /\ lastOk' = [set |-> TRUE, run |-> run, prices |-> NewPrices(f)]
                   /\ pc' = "m_ended"
              ELSE /\ UNCHANGED <<temps, bundled, lastOk>>
                   /\ pc' = "m_preview"
    /\ UNCHANGED <<current_prices, typed, before, reread>>
    /\ UNCHANGED <<uploaded_file, temp_file_path, use_bundled, run, exportInput>>
    /\ UNCHANGED evars

\* lines 261-300: with an Export sheet, the preview's temp file: created,
\* saved to, read, unlinked at the end of the with block; an exception on the
\* way is reported by st.error
MPreview ==
    /\ pc = "m_preview"
    /\ IF "Export" \in workbook.sheets
       THEN \/ \* saved, read, shown, unlinked
               UNCHANGED temps
            \/ \* workbook.save raised
               temps' = temps \cup {TempFile(PreviewId(run), run, "preview", NoFile)}
            \/ \* both reads, the display or os.unlink raised
               temps' = temps \cup {TempFile(PreviewId(run), run, "preview", SaveFile(workbook))}
       ELSE UNCHANGED temps
    /\ pc' = "m_export"
    /\ UNCHANGED pvars_but_pc
    /\ UNCHANGED <<bundled, uploaded_file, temp_file_path, use_bundled, run, lastOk, exportInput>>
    /\ UNCHANGED evars

\* lines 303-316: csv_data = export_sheet_to_csv(workbook, 'Export')
MExport ==
    /\ pc = "m_export"
    /\ exportInput' = IF "Export" \in workbook.sheets THEN workbook ELSE exportInput
    /\ pc' = "m_cleanup"
    /\ UNCHANGED pvars_but_pc
    /\ UNCHANGED <<bundled, uploaded_file, temps, temp_file_path, use_bundled, run, lastOk>>
    /\ UNCHANGED evars

\* lines 370-379: workbook.close(); unlink the upload's temp copy, a failure
\* swallowed
MCleanup ==
    /\ pc = "m_cleanup"
    /\ \/ temps' = IF temp_file_path # 0 THEN Unlink(temp_file_path) ELSE temps
       \/ temp_file_path # 0 /\ UNCHANGED temps
    /\ pc' = "m_ended"
    /\ UNCHANGED pvars_but_pc
    /\ UNCHANGED <<bundled, uploaded_file, temp_file_path, use_bundled, run, lastOk, exportInput>>
    /\ UNCHANGED evars

\* the script runs again: after st.rerun(), or on the user's next interaction
MRerun ==
    /\ pc = "m_ended"
    /\ run < MaxRuns
    /\ run' = run + 1
    /\ pc' = "m_start"
    /\ UNCHANGED pvars_but_pc
    /\ UNCHANGED <<bundled, uploaded_file, temps, temp_file_path, use_bundled, lastOk, exportInput>>
    /\ UNCHANGED evars

MNext ==
    \/ MOpen \/ MRead \/ MNoSubmit \/ MSubmit \/ MPreview \/ MExport
    \/ MCleanup \/ MRerun

SpecMain == MInit /\ [][MNext]_vars

(***************************************************************************)
(* Claims about the session (checked under SpecMain).                      *)
(***************************************************************************)
\* C9: at the end of a run no temporary file created in that run is on disk.
C9_TempFilesReleased ==
    pc = "m_ended" => \A f \in temps : f.run # run

\* what a reader finds for a submitted value once the file is loaded again
Shows(read, submitted) == read = LoadCell(submitted)

\* C10: in the run after an update reported as successful, the prices read
\* for the form and the workbook handed to the export hold the submitted
\* D4..D7.
C10_EditVisible ==
    lastOk.set /\ run = lastOk.run + 1 =>
        /\ (pc = "m_form" =>
               \A c \in CellSet : Shows(current_prices.map[c], lastOk.prices[c]))
        /\ (pc = "m_cleanup" /\ updated = "none" /\ "Export" \in workbook.sheets =>
               \A c \in CellSet : Shows(exportInput.cells["Prices"][c], lastOk.prices[c]))

(***************************************************************************)
(* The whole program: any of its three parts, from its start.              *)
(***************************************************************************)
Init == PInit \/ EInit \/ MInit
Next == PNext \/ ENext \/ MNext
Spec == Init /\ [][Next]_vars
====
